---- MODULE Spec2Model ----
(***************************************************************************)
(* Model of whep-srt (src/src/main.rs): the main thread that parses the    *)
(* static pipeline, registers its observers, starts the pipeline and runs  *)
(* the bus loop; the ctrlc handler thread; and the pad-added handlers and  *)
(* the one-shot BUFFER probe that wire tracks while the pipeline runs.     *)
(* The media framework (webrtcbin, decodebin, the bus) is the environment: *)
(* it adds pads, pushes buffers and posts messages in any order.           *)
(***************************************************************************)
EXTENDS Integers, Sequences, FiniteSets, TLC

\* ---- bounds of the model ----
MaxTracks == 2      \* pads that webrtcbin adds
MaxLegs == 2        \* src pads one decodebin adds
MaxMsgs == 2        \* messages the framework posts on the bus
MaxBuffers == 2     \* buffers pushed through one input pad
MaxNest == 2        \* containers between webrtcbin and the pipeline
MaxEvents == 5      \* framework events (pads, buffers, messages) in one run

Tracks == 1..MaxTracks

\* ---- exit codes ----
ParseFailExit == -1     \* std::process::exit(-1)
HandlerExit == 0        \* exit(0) in the ctrlc handler
MainReturnExit == 0     \* main returns ()
PanicExit == 101        \* a panic unwinding out of main
AbortExit == 134        \* a panic inside a framework callback aborts
SigintExit == 130       \* the default disposition of the interrupt

MediaKinds == {"audio", "video", "application"}

ParseResults == {"ok", "no_such_element", "parse_error"}

PipelineStates == {"Playing", "Null"}

\* messages the loop can view: view, source, and for StateChanged the new state
Messages ==
    [type : {"StateChanged"}, src : {"pipeline"}, current : PipelineStates]
    \cup [type : {"StateChanged"}, src : {"nested"}, current : {"Playing"}]
    \cup [type : {"Eos"}, src : {"pipeline"}, current : {"-"}]
    \cup [type : {"Error"}, src : {"pipeline", "nested"}, current : {"-"}]
    \cup [type : {"Warning"}, src : {"nested"}, current : {"-"}]

NoMsg == [type |-> "-", src |-> "-", current |-> "-"]

VARIABLES
    mainPc,         \* position of the main thread
    sigPc,          \* position of the ctrlc handler thread
    exitCode,       \* the process exit code, once exitBy names a path
    exitBy,         \* which path ended the process (and for a panic in a
                    \* handler: where, for which track; for a parse failure: its
                    \* kind); NotExited while it runs
    graphState,     \* last state requested on the pipeline ("Void" before any)
    nullReqs,       \* who requested Null, in order
    observers,      \* registered: "ctrlc", "deep_element_added", "input_pad_added"
    logs,           \* what has been logged at error level
    bus,            \* emission numbers of the messages posted and not yet taken
    lastMsg,        \* the message the loop viewed in its last iteration
    posted,         \* number of messages posted so far
    consumed,       \* number of messages the loop has taken
    events,         \* framework events so far
    nest,           \* container levels between webrtcbin and the pipeline
    webrtcbin,      \* "absent", "observed" (pad-added handler connected), "unobserved"
    wpad,           \* per track: webrtcbin pad state
    ghosts,         \* ghost pads the webrtcbin pad-added handler added, in order
    probe,          \* per track: "none", "armed", "removed" on the input pad
    bufs,           \* per track: buffers that reached the input pad
    routeRuns,      \* per track: times the probe callback body ran
    capsQueried,    \* per track: the callbacks that called current_caps on its pad
    elements,       \* elements created at run time
    links,          \* pad links made at run time
    legs,           \* per track: src pads its decodebin has added
    slots           \* mixer request pads, in request order

vars == <<lastMsg, mainPc, sigPc, exitCode, exitBy, graphState, nullReqs, observers, events,
          logs, bus, posted, consumed, nest, webrtcbin,
          wpad, ghosts, probe, bufs, routeRuns, capsQueried, elements, links, legs,
          slots>>

mainVars == <<mainPc, observers, logs, bus, consumed, lastMsg>>
trackVars == <<webrtcbin, wpad, ghosts, probe, bufs, routeRuns, capsQueried, elements,
               links, legs, slots>>

NotExited == [path |-> "-", at |-> "-", track |-> 0]
Running == exitBy = NotExited
Exited == exitBy # NotExited

NoPad == [state |-> "none", media |-> "-", caps |-> FALSE, linked |-> FALSE]

Init ==
    /\ mainPc = "parse"
    /\ sigPc = "idle"
    /\ exitCode = 0
    /\ exitBy = NotExited
    /\ graphState = "Void"
    /\ nullReqs = <<>>
    /\ observers = {}
    /\ logs = {}
    /\ bus = <<>>
    /\ lastMsg = NoMsg
    /\ posted = 0
    /\ consumed = 0
    /\ events = 0
    /\ nest \in 1..MaxNest
    /\ webrtcbin = "absent"
    /\ wpad = [t \in Tracks |-> NoPad]
    /\ ghosts = <<>>
    /\ probe = [t \in Tracks |-> "none"]
    /\ bufs = [t \in Tracks |-> 0]
    /\ routeRuns = [t \in Tracks |-> 0]
    /\ capsQueried = [t \in Tracks |-> {}]
    /\ elements = {}
    /\ links = {}
    /\ legs = [t \in Tracks |-> 0]
    /\ slots = <<>>

\* ---------------------------------------------------------------------
\* Main thread
\* ---------------------------------------------------------------------

\* the process ends: nothing runs afterwards
Exit(code, by) ==
    /\ exitCode' = code
    /\ exitBy' = [path |-> by, at |-> "-", track |-> 0]

\* an error arm that never names the missing elements
ParseLogGeneric(r) == "parse_failed"

\* what the error arm of parse::launch_full logs
ParseLog(r) == IF r = "no_such_element" THEN "missing_elements" ELSE "parse_failed"

\* gst::parse::launch_full and its error arm
ParseLaunch ==
    /\ Running /\ mainPc = "parse"
    /\ \E r \in ParseResults :
        IF r = "ok"
        THEN /\ mainPc' = "set_handler"
             /\ UNCHANGED <<exitCode, exitBy, logs>>
        ELSE /\ logs' = logs \cup {ParseLog(r)}
             /\ exitCode' = ParseFailExit
             /\ exitBy' = [path |-> "parse", at |-> r, track |-> 0]
             /\ mainPc' = "exited"
    /\ UNCHANGED <<sigPc, graphState, nullReqs, observers, bus, lastMsg,
                   posted, consumed, nest, events>>
    /\ UNCHANGED trackVars

\* ctrlc::set_handler
SetCtrlcHandler ==
    /\ Running /\ mainPc = "set_handler"
    /\ observers' = observers \cup {"ctrlc"}
    /\ mainPc' = "connect_deep"
    /\ UNCHANGED <<sigPc, exitCode, exitBy, graphState, nullReqs, logs,
                   bus, lastMsg, posted, consumed, nest, events>>
    /\ UNCHANGED trackVars

\* pipeline.connect_deep_element_added
ConnectDeepElementAdded ==
    /\ Running /\ mainPc = "connect_deep"
    /\ observers' = observers \cup {"deep_element_added"}
    /\ mainPc' = "connect_input"
    /\ UNCHANGED <<sigPc, exitCode, exitBy, graphState, nullReqs, logs,
                   bus, lastMsg, posted, consumed, nest, events>>
    /\ UNCHANGED trackVars

\* a main thread that goes on to set_state(Playing) without the input
\* pad-added handler
ConnectInputPadSkipped ==
    /\ Running /\ mainPc = "connect_input"
    /\ mainPc' = "set_playing"
    /\ UNCHANGED <<sigPc, exitCode, exitBy, graphState, nullReqs, logs, observers,
                   bus, lastMsg, posted, consumed, nest, events>>
    /\ UNCHANGED trackVars

\* input_whep_bin.connect_pad_added
ConnectInputPadAdded ==
    /\ Running /\ mainPc = "connect_input"
    /\ observers' = observers \cup {"input_pad_added"}
    /\ mainPc' = "set_playing"
    /\ UNCHANGED <<sigPc, exitCode, exitBy, graphState, nullReqs, logs,
                   bus, lastMsg, posted, consumed, nest, events>>
    /\ UNCHANGED trackVars

\* pipeline.set_state(Playing).expect(..)
SetPlaying ==
    /\ Running /\ mainPc = "set_playing"
    /\ \E ok \in BOOLEAN :
        IF ok
        THEN /\ graphState' = "Playing"
             /\ mainPc' = "loop"
             /\ UNCHANGED <<exitCode, exitBy>>
        ELSE /\ Exit(PanicExit, "panic_main")
             /\ mainPc' = "exited"
             /\ UNCHANGED graphState
    /\ UNCHANGED <<sigPc, nullReqs, observers, logs, bus, lastMsg, posted,
                   consumed, nest, events>>
    /\ UNCHANGED trackVars

\* a loop whose Error arm does not break
LoopTargetNoBreak(msg) ==
    IF msg.type = "Eos" THEN "set_null" ELSE "loop"

\* a loop that also ends when the pipeline reports it reached Null
LoopTargetNullBreaks(msg) ==
    IF msg.type \in {"Eos", "Error"} \/ (msg.src = "pipeline" /\ msg.current = "Null")
    THEN "set_null" ELSE "loop"

\* where the loop goes after one message: break on Eos and Error
LoopTarget(msg) ==
    IF msg.type \in {"Eos", "Error"} THEN "set_null" ELSE "loop"

\* one iteration of `for msg in bus.iter_timed(NONE)`: the loop takes the
\* oldest message.  What that message is matters to nothing before the loop
\* views it, so it is drawn here.
LoopStep ==
    /\ Running /\ mainPc = "loop"
    /\ bus # <<>>
    /\ \E msg \in Messages :
        /\ bus' = Tail(bus)
        /\ consumed' = consumed + 1
        /\ lastMsg' = msg
        /\ mainPc' = LoopTarget(msg)
        /\ logs' = IF msg.type = "Error" THEN logs \cup {"error"} ELSE logs
    /\ UNCHANGED <<sigPc, exitCode, exitBy, graphState, nullReqs, observers,
                   posted, nest, events>>
    /\ UNCHANGED trackVars

\* a main thread that leaves the loop without set_state(Null)
PostLoopSkipNull ==
    /\ Running /\ mainPc = "set_null"
    /\ mainPc' = "sleep"
    /\ UNCHANGED <<sigPc, exitCode, exitBy, graphState, nullReqs, observers, logs,
                   bus, lastMsg, posted, consumed, nest, events>>
    /\ UNCHANGED trackVars

\* pipeline.set_state(Null) after the loop
PostLoopSetNull ==
    /\ Running /\ mainPc = "set_null"
    /\ graphState' = "Null"
    /\ nullReqs' = Append(nullReqs, "main")
    /\ mainPc' = "sleep"
    /\ UNCHANGED <<sigPc, exitCode, exitBy, observers, logs, bus, lastMsg,
                   posted, consumed, nest, events>>
    /\ UNCHANGED trackVars

\* sleep(1s) and the end of main
MainReturn ==
    /\ Running /\ mainPc = "sleep"
    /\ Exit(MainReturnExit, "main_return")
    /\ mainPc' = "exited"
    /\ UNCHANGED <<sigPc, graphState, nullReqs, observers, logs, bus, lastMsg, posted, consumed, nest, events>>
    /\ UNCHANGED trackVars

\* ---------------------------------------------------------------------
\* ctrlc handler thread
\* ---------------------------------------------------------------------

\* a handler whose set_state(Null) never returns on a pipeline that is in
\* Null already
InterruptBlocksOnNull ==
    /\ Running /\ sigPc = "idle"
    /\ IF "ctrlc" \in observers
       THEN /\ graphState' = "Null"
            /\ nullReqs' = Append(nullReqs, "ctrlc")
            /\ sigPc' = IF graphState = "Null" THEN "blocked" ELSE "sleep"
            /\ UNCHANGED <<exitCode, exitBy>>
       ELSE /\ Exit(SigintExit, "sigint")
            /\ sigPc' = "killed"
            /\ UNCHANGED <<graphState, nullReqs>>
    /\ UNCHANGED <<posted, nest, events>>
    /\ UNCHANGED mainVars
    /\ UNCHANGED trackVars

\* the interrupt arrives: the handler logs and requests Null; without a
\* registered handler the default disposition ends the process
Interrupt ==
    /\ Running /\ sigPc = "idle"
    /\ IF "ctrlc" \in observers
       THEN /\ graphState' = "Null"
            /\ nullReqs' = Append(nullReqs, "ctrlc")
            /\ sigPc' = "sleep"
            /\ UNCHANGED <<exitCode, exitBy>>
       ELSE /\ Exit(SigintExit, "sigint")
            /\ sigPc' = "killed"
            /\ UNCHANGED <<graphState, nullReqs>>
    /\ UNCHANGED <<posted, nest, events>>
    /\ UNCHANGED mainVars
    /\ UNCHANGED trackVars

\* a handler that returns instead of exiting
HandlerReturns ==
    /\ Running /\ sigPc = "sleep"
    /\ sigPc' = "returned"
    /\ UNCHANGED <<exitCode, exitBy, graphState, nullReqs, posted, nest, events>>
    /\ UNCHANGED mainVars
    /\ UNCHANGED trackVars

\* sleep(1s); exit(0)
HandlerExitStep ==
    /\ Running /\ sigPc = "sleep"
    /\ Exit(HandlerExit, "ctrlc")
    /\ sigPc' = "exited"
    /\ UNCHANGED <<graphState, nullReqs, posted, nest, events>>
    /\ UNCHANGED mainVars
    /\ UNCHANGED trackVars

\* ---------------------------------------------------------------------
\* Bus: the framework posts a message while the pipeline runs
\* ---------------------------------------------------------------------
PostMessage ==
    /\ events < MaxEvents
    /\ events' = events + 1
    /\ Running /\ graphState = "Playing"
    /\ posted < MaxMsgs
    /\ bus' = Append(bus, posted + 1)
    /\ posted' = posted + 1
    /\ UNCHANGED <<mainPc, sigPc, exitCode, exitBy, graphState, nullReqs, observers,
                   logs, consumed, lastMsg, nest>>
    /\ UNCHANGED trackVars

\* ---------------------------------------------------------------------
\* Tracks: handlers that run on the framework's threads
\* ---------------------------------------------------------------------

\* a panic inside a callback invoked by the framework ends the process
Abort(at, t) ==
    /\ exitCode' = AbortExit
    /\ exitBy' = [path |-> "abort", at |-> at, track |-> t]

\* webrtcbin names its source pads src_%u, in the order it adds them
PadName(t) == "src_" \o ToString(t)

\* a ghost pad named by the media kind alone
GhostNameKindOnly(media, padname) == media

\* format!("{}_{}", media_type, pad.name())
GhostName(media, padname) == media \o "_" \o padname

\* elem.parent(), parent.parent(): level 0 is webrtcbin, level nest is the
\* element named "input", level nest + 1 is the pipeline
Parent(level) == level + 1
IsPipeline(level) == level = nest + 1

\* a second ghost pad built straight on the webrtcbin pad
Ghost2TargetPad(padname, ghostname) == [level |-> 0, name |-> padname]

\* the pad that ghostpad2 is built on: with_target(&ghostpad)
Ghost2Target(padname, ghostname) == [level |-> 1, name |-> ghostname]

\* the ghost pads the webrtcbin pad-added handler builds for one unlinked
\* pad, in the order it adds them
GhostChain(t, media) ==
    LET name == GhostName(media, PadName(t))
        parent == Parent(0)
        ghostpad == [level |-> parent, name |-> name, tlevel |-> 0,
                     tname |-> PadName(t), track |-> t]
        parent_parent == Parent(parent)
        target2 == Ghost2Target(PadName(t), name)
        ghostpad2 == [level |-> parent_parent, name |-> name,
                      tlevel |-> target2.level, tname |-> target2.name,
                      track |-> t]
    IN  IF IsPipeline(parent_parent) THEN <<ghostpad>> ELSE <<ghostpad, ghostpad2>>

\* Bin::add_pad refuses a name the container already has
RECURSIVE AddPads(_, _)
AddPads(have, new) ==
    IF new = <<>> THEN [ok |-> TRUE, pads |-> have]
    ELSE IF \E i \in 1..Len(have) :
                /\ have[i].level = Head(new).level
                /\ have[i].name = Head(new).name
         THEN [ok |-> FALSE, pads |-> have]
         ELSE AddPads(Append(have, Head(new)), Tail(new))

\* the first k - 1 steps of a handler ran when step k failed (0: none failed)
Done(steps, fail) == IF fail = 0 THEN steps ELSE SubSeq(steps, 1, fail - 1)
Did(steps, fail, step) == \E i \in 1..Len(Done(steps, fail)) : steps[i] = step

\* a pad appears on the element named "input": the input pad-added handler
\* installs the BUFFER probe
InputPadAdded == IF "input_pad_added" \in observers THEN "armed" ELSE "unobserved"

\* a probe that stays installed
ProbeReturnKeep == "Ok"

\* what the BUFFER probe callback returns
ProbeReturn == "Remove"

AfterProbe == IF ProbeReturn = "Remove" THEN "removed" ELSE "armed"

\* a handler that goes on to its ghost pad branch without the caps of the pad
PromotesNoCaps(handler, caps, linked) == handler /\ ~linked

\* a handler without the is_linked test
PromotesLinked(handler, caps, linked) == handler /\ caps

\* the webrtcbin pad-added handler reaches its ghost pad branch: it has the
\* caps of the pad and the pad is not linked
Promotes(handler, caps, linked) == handler /\ caps /\ ~linked

\* deep-element-added for the GstWebRTCBin element
WebrtcbinAdded ==
    /\ events < MaxEvents
    /\ events' = events + 1
    /\ Running /\ graphState = "Playing"
    /\ webrtcbin = "absent"
    /\ webrtcbin' = IF "deep_element_added" \in observers
                    THEN "observed" ELSE "unobserved"
    /\ UNCHANGED <<sigPc, exitCode, exitBy, graphState, nullReqs, posted, nest>>
    /\ UNCHANGED mainVars
    /\ UNCHANGED <<wpad, ghosts, probe, bufs, routeRuns, capsQueried, elements, links,
                   legs, slots>>

\* pad-added on webrtcbin.  A pad that the source element has already
\* wired (linked) is exposed on "input" by that element itself.
WebrtcPadAdded(t) ==
    /\ events < MaxEvents
    /\ events' = events + 1
    /\ Running /\ graphState = "Playing"
    /\ webrtcbin # "absent"
    /\ wpad[t].state = "none"
    /\ \A u \in Tracks : u < t => wpad[u].state = "added"
    /\ \E media \in MediaKinds, caps \in BOOLEAN, linked \in BOOLEAN, failAt \in 0..2 :
        LET chain == GhostChain(t, media)
            added == AddPads(ghosts, Done(chain, failAt))
            handler == webrtcbin = "observed"
            promote == Promotes(handler, caps, linked)
            exposed == \/ linked
                       \/ /\ promote
                          /\ \E i \in 1..Len(added.pads) :
                                added.pads[i].track = t /\ added.pads[i].level = nest
        IN  /\ failAt <= Len(chain)
            /\ (~promote => failAt = 0)
            /\ wpad' = [wpad EXCEPT ![t] = [state |-> "added", media |-> media,
                                            caps |-> caps, linked |-> linked]]
            /\ ghosts' = IF promote THEN added.pads ELSE ghosts
            /\ capsQueried' = IF handler
                              THEN [capsQueried EXCEPT ![t] = @ \cup {"pad_added"}]
                              ELSE capsQueried
            /\ probe' = IF exposed THEN [probe EXCEPT ![t] = InputPadAdded] ELSE probe
            /\ IF handler /\ ~caps THEN Abort("current_caps", t)
               ELSE IF promote /\ ~added.ok THEN Abort("add_pad", t)
               ELSE IF promote /\ failAt # 0 THEN Abort("ghostpad", t)
               ELSE UNCHANGED <<exitCode, exitBy>>
    /\ UNCHANGED <<sigPc, graphState, nullReqs, posted, nest>>
    /\ UNCHANGED mainVars
    /\ UNCHANGED <<webrtcbin, bufs, routeRuns, elements, links, legs, slots>>

\* identities of pads and elements in `links`
Port(t) == <<"port", t, 0, 0>>
ElemId(e) == <<e.kind, e.track, e.leg, e.n>>
LegPad(t, n, leg) == <<"decodebin_src", t, leg, n>>
MixerPad(i) == <<"mixer_sink", i, 0, 0>>

\* a source pad has one peer: linking a linked pad fails
Linked(pad) == \E l \in links : l[1] = pad

Count(kind, t) == Cardinality({e \in elements : e.kind = kind /\ e.track = t})

\* an audio arm that links the decodebin before it syncs its state
AudioStepsLinkFirst == <<"create", "add", "connect_pad_added", "link", "sync">>

\* the "audio" arm of the probe: decodebin
AudioSteps == <<"create", "add", "sync", "connect_pad_added", "link">>
\* a video arm that never links the pad
VideoStepsNoLink == <<"create", "add", "sync">>

\* the "video" arm of the probe: fakesink
VideoSteps == <<"create", "add", "sync", "link">>

\* a match whose default arm treats the track like video
RouteStepsDefaultSink(media) == IF media = "audio" THEN AudioSteps ELSE VideoSteps

\* match media_type.as_str(): the default arm builds nothing
RouteSteps(media) ==
    IF media = "audio" THEN AudioSteps
    ELSE IF media = "video" THEN VideoSteps ELSE <<>>

\* an audio arm that also makes the audioconvert with the decodebin
BuiltEager(kind, t, steps, fail) ==
    IF ~Did(steps, fail, "create") THEN {}
    ELSE {[kind |-> kind, track |-> t, leg |-> 0, n |-> Count(kind, t) + 1,
           ops |-> Tail(Done(steps, fail))]}
         \cup (IF kind = "decodebin"
               THEN {[kind |-> "audioconvert", track |-> t, leg |-> 0, n |-> 1,
                      ops |-> <<"add">>]}
               ELSE {})

\* the element one arm of the probe builds, with the steps that ran on it
Built(kind, t, steps, fail) ==
    IF ~Did(steps, fail, "create") THEN {}
    ELSE {[kind |-> kind, track |-> t, leg |-> 0, n |-> Count(kind, t) + 1,
           ops |-> Tail(Done(steps, fail))]}

\* a buffer reaches the pad on "input"; the probe, while installed, routes
Buffer(t) ==
    /\ events < MaxEvents
    /\ events' = events + 1
    /\ Running /\ graphState = "Playing"
    /\ probe[t] \in {"armed", "removed", "unobserved"}
    /\ bufs[t] < MaxBuffers
    /\ bufs' = [bufs EXCEPT ![t] = @ + 1]
    /\ IF probe[t] # "armed"
       THEN UNCHANGED <<exitCode, exitBy, probe, routeRuns, capsQueried, elements,
                        links, logs>>
       ELSE \E capsNow \in BOOLEAN, failAt \in 0..5 :
            LET media == wpad[t].media
                steps == RouteSteps(media)
                kind == IF media = "audio" THEN "decodebin" ELSE "fakesink"
                fail == IF failAt = 0 /\ steps # <<>> /\ Linked(Port(t))
                        THEN Len(steps) ELSE failAt
                new == Built(kind, t, steps, fail)
            IN  /\ failAt <= Len(steps)
                /\ (failAt # 0 => steps[failAt] # "connect_pad_added")
                /\ (~capsNow => failAt = 0)
                /\ routeRuns' = [routeRuns EXCEPT ![t] = @ + 1]
                /\ capsQueried' = [capsQueried EXCEPT ![t] = @ \cup {"buffer"}]
                /\ IF ~capsNow
                   THEN /\ Abort("probe_caps", t)
                        /\ UNCHANGED <<probe, elements, links, logs>>
                   ELSE /\ elements' = elements \cup new
                        /\ links' = IF steps # <<>> /\ Did(steps, fail, "link")
                                    THEN links \cup {<<Port(t), ElemId(CHOOSE e \in new : TRUE)>>}
                                    ELSE links
                        /\ logs' = IF steps = <<>> THEN logs \cup {"unhandled_media"} ELSE logs
                        /\ IF fail # 0
                           THEN Abort("route", t) /\ UNCHANGED probe
                           ELSE /\ probe' = [probe EXCEPT ![t] = AfterProbe]
                                /\ UNCHANGED <<exitCode, exitBy>>
    /\ UNCHANGED <<mainPc, sigPc, graphState, nullReqs, observers, bus, lastMsg, posted, consumed, nest>>
    /\ UNCHANGED <<webrtcbin, wpad, ghosts, legs, slots>>


\* the pad-added handler connected to one decodebin
ChainSteps == <<"create", "add", "sync", "link_many", "request_pad",
                "link_mixer", "link_leg">>
ChainKinds == {"audioconvert", "audioresample", "capsfilter"}

\* steps of the handler that act on each of the three new elements
ChainOps(fail) ==
    (IF Did(ChainSteps, fail, "add") THEN <<"add">> ELSE <<>>)
    \o (IF Did(ChainSteps, fail, "sync") THEN <<"sync">> ELSE <<>>)
    \o (IF Did(ChainSteps, fail, "link_many") THEN <<"link">> ELSE <<>>)

ChainElem(kind, t, leg, fail) ==
    [kind |-> kind, track |-> t, leg |-> leg, n |-> 1, ops |-> ChainOps(fail)]

\* does the handler wire this src pad of the decodebin
WiresLeg(leg) == TRUE

\* decodebin adds a src pad: its pad-added handler builds the chain to the mixer
DecodePadAdded(t) ==
    /\ events < MaxEvents
    /\ events' = events + 1
    /\ Running /\ graphState = "Playing"
    /\ legs[t] < MaxLegs
    /\ \E d \in elements, failAt \in 0..Len(ChainSteps) :
        /\ d.kind = "decodebin" /\ d.track = t
        /\ Did(d.ops, 0, "connect_pad_added") /\ Did(d.ops, 0, "link")
        /\ LET leg == legs[t] + 1
               pad == LegPad(t, d.n, leg)
               fail == failAt
               convert == ChainElem("audioconvert", t, leg, fail)
               resample == ChainElem("audioresample", t, leg, fail)
               caps == ChainElem("capsfilter", t, leg, fail)
               slot == Len(slots) + 1
           IN  /\ legs' = [legs EXCEPT ![t] = leg]
               /\ IF ~WiresLeg(leg)
                  THEN UNCHANGED <<elements, links, slots, exitCode, exitBy>>
                  ELSE /\ elements' = IF Did(ChainSteps, fail, "create")
                                      THEN elements \cup {convert, resample, caps}
                                      ELSE elements
                       /\ slots' = IF Did(ChainSteps, fail, "request_pad")
                                   THEN Append(slots, [track |-> t, leg |-> leg, dec |-> d.n])
                                   ELSE slots
                       /\ links' = links
                            \cup (IF Did(ChainSteps, fail, "link_many")
                                  THEN {<<ElemId(convert), ElemId(resample)>>,
                                        <<ElemId(resample), ElemId(caps)>>}
                                  ELSE {})
                            \cup (IF Did(ChainSteps, fail, "link_mixer")
                                  THEN {<<ElemId(caps), MixerPad(slot)>>} ELSE {})
                            \cup (IF Did(ChainSteps, fail, "link_leg")
                                  THEN {<<pad, ElemId(convert)>>} ELSE {})
                       /\ IF fail # 0 THEN Abort("chain", t) ELSE UNCHANGED <<exitCode, exitBy>>
    /\ UNCHANGED <<sigPc, graphState, nullReqs, posted, nest>>
    /\ UNCHANGED mainVars
    /\ UNCHANGED <<webrtcbin, wpad, ghosts, probe, bufs, routeRuns, capsQueried>>

Next ==
    \/ ParseLaunch
    \/ SetCtrlcHandler
    \/ ConnectDeepElementAdded
    \/ ConnectInputPadAdded
    \/ SetPlaying
    \/ LoopStep
    \/ PostLoopSetNull
    \/ MainReturn
    \/ Interrupt
    \/ HandlerExitStep
    \/ PostMessage
    \/ WebrtcbinAdded
    \/ \E t \in Tracks : WebrtcPadAdded(t)
    \/ \E t \in Tracks : Buffer(t)
    \/ \E t \in Tracks : DecodePadAdded(t)

Spec == Init /\ [][Next]_vars

\* the ctrlc handler runs on a thread of its own: once it sleeps, it wakes
\* up and exits
FairSpec == Spec /\ WF_vars(HandlerExitStep)

\* The two threads and the bus alone, for a session in which webrtcbin never
\* appears.  The callbacks left out touch neither thread's position nor the
\* state requested on the pipeline; all they can do to the shutdown is end
\* the process early.
ShutdownNext ==
    \/ ParseLaunch
    \/ SetCtrlcHandler
    \/ ConnectDeepElementAdded
    \/ ConnectInputPadAdded
    \/ SetPlaying
    \/ LoopStep
    \/ PostLoopSetNull
    \/ MainReturn
    \/ Interrupt
    \/ HandlerExitStep
    \/ PostMessage

ShutdownSpec == Init /\ [][ShutdownNext]_vars /\ WF_vars(HandlerExitStep)

\* ---------------------------------------------------------------------
\* Properties
\* ---------------------------------------------------------------------

SlotsOf(t) == {i \in 1..Len(slots) : slots[i].track = t}

\* mixer slot i is fed by track t's pad through decodebin, audioconvert,
\* audioresample and capsfilter
ChainTo(t, i) ==
    \E d \in elements :
        /\ d.kind = "decodebin" /\ d.track = t
        /\ <<Port(t), ElemId(d)>> \in links
        /\ LET leg == slots[i].leg
               id(kind) == <<kind, t, leg, 1>>
           IN  /\ <<LegPad(t, d.n, leg), id("audioconvert")>> \in links
               /\ <<id("audioconvert"), id("audioresample")>> \in links
               /\ <<id("audioresample"), id("capsfilter")>> \in links
               /\ <<id("capsfilter"), MixerPad(i)>> \in links

\* the handler named `at` did not panic while serving track t
NoPanic(at, t) == ~(exitBy.path = "abort" /\ exitBy.at = at /\ exitBy.track = t)

\* C1: an audio track never has two mixer slots, and once its decodebin has
\* added a pad (and the handler did not panic) it has exactly one slot and
\* exactly one decodebin -> audioconvert -> audioresample -> capsfilter chain
\* from its pad to that slot.
C1_OneSlotPerAudioTrack ==
    \A t \in Tracks :
        /\ Cardinality(SlotsOf(t)) <= 1
        /\ (wpad[t].media = "audio" /\ legs[t] >= 1 /\ NoPanic("chain", t))
              => /\ Cardinality(SlotsOf(t)) = 1
                 /\ Cardinality({i \in SlotsOf(t) : ChainTo(t, i)}) = 1

\* C2: the probe body runs at most once per input pad, on the first buffer
\* and not on later ones; no pad gets two decodebins or two fakesinks.
C2_RoutedOnce ==
    \A t \in Tracks :
        /\ routeRuns[t] <= 1
        /\ Count("decodebin", t) <= 1
        /\ Count("fakesink", t) <= 1
        /\ (bufs[t] >= 1 /\ probe[t] # "unobserved") => routeRuns[t] = 1
        /\ (bufs[t] >= 1 /\ Running) => probe[t] # "armed"

\* a later buffer has passed a pad that was routed on its first buffer
C2_Witness ==
    \E t \in Tracks :
        /\ bufs[t] = 2 /\ routeRuns[t] = 1 /\ probe[t] = "removed"
        /\ Count("decodebin", t) = 1

\* C3: the second and later src pads of a decodebin get no audioconvert,
\* audioresample or capsfilter and no mixer slot.
C3_OnlyFirstLegLinked ==
    /\ \A e \in elements : e.leg <= 1
    /\ \A i \in 1..Len(slots) : slots[i].leg <= 1

\* the fakesink of a routed video track: created, added, synced, linked
VideoSinks(t) == {e \in elements : e.kind = "fakesink" /\ e.track = t}

\* routing a video track leaves the bus and the pipeline state alone
VideoRouteQuiet ==
    \A t \in Tracks :
        (wpad[t].media = "video" /\ routeRuns'[t] # routeRuns[t])
           => /\ bus' = bus /\ posted' = posted
              /\ graphState' = graphState /\ nullReqs' = nullReqs

VideoSinkLinked ==
    \A t \in Tracks :
        (wpad[t].media = "video" /\ probe[t] = "removed")
           => /\ Cardinality(VideoSinks(t)) = 1
              /\ \A e \in VideoSinks(t) :
                    /\ e.ops = <<"add", "sync", "link">>
                    /\ <<Port(t), ElemId(e)>> \in links

\* C4: a routed video track has exactly one fakesink, added to the pipeline
\* and linked to the track's pad; the routing step posts nothing on the bus
\* and requests no pipeline state.
C4_VideoDiscard == []VideoSinkLinked /\ [][VideoRouteQuiet]_vars

C4_Witness ==
    \E t \in Tracks :
        /\ wpad[t].media = "video" /\ probe[t] = "removed"
        /\ graphState = "Playing" /\ Running
        /\ \E e \in VideoSinks(t) : <<Port(t), ElemId(e)>> \in links

\* the loop step that takes an Error message breaks
ErrorBreaks ==
    (consumed' # consumed /\ lastMsg'.type = "Error")
       => (mainPc = "loop" /\ mainPc' = "set_null" /\ consumed' = consumed + 1)

\* after the loop: no message is taken, and the step after the break is
\* set_state(Null)
AfterLoop ==
    mainPc \in {"set_null", "sleep", "exited"}
       => /\ consumed' = consumed
          /\ (mainPc = "set_null" /\ mainPc' # mainPc)
                => /\ mainPc' = "sleep"
                   /\ graphState' = "Null"
                   /\ nullReqs' = Append(nullReqs, "main")

\* C5: the loop step that takes an Error message leaves the loop; from then
\* on the main thread takes no further message, and its next step requests
\* Null on the pipeline.
C5_ErrorEndsLoop == [][ErrorBreaks]_vars /\ [][AfterLoop]_vars

\* an Error was taken while a later message was waiting, and main went on
\* to request Null
C5_Witness ==
    /\ "error" \in logs
    /\ mainPc = "sleep"
    /\ bus # <<>>
    /\ consumed < posted
    /\ nullReqs # <<>> /\ nullReqs[Len(nullReqs)] = "main"

\* C6: a process whose loop ended on an Error message exits non-zero.
C6_ErrorExitsNonZero ==
    (exitBy.path = "main_return" /\ "error" \in logs) => exitCode # 0


\* C7: after an interrupt that found the pipeline Playing and the loop
\* parked on an empty bus, the handler has requested Null and the process
\* ends with the handler's exit(0), with no Eos or Error ever posted.
InterruptedWhileParked ==
    /\ sigPc = "sleep" /\ Running
    /\ mainPc = "loop" /\ bus = <<>>
    /\ graphState = "Null"

HandlerRequestedNull ==
    sigPc \in {"sleep", "exited"} => \E i \in 1..Len(nullReqs) : nullReqs[i] = "ctrlc"

FatalExit ==
    \/ exitBy.path \in {"parse", "panic_main", "abort"}
    \/ exitBy.path = "main_return" /\ "error" \in logs

C8_AllFatalThroughShutdown == FatalExit => nullReqs # <<>>

\* C8 amended: only the Error path runs the shutdown (main requests Null,
\* then returns); a parse failure exits at once, before any state request;
\* a failed set_state(Playing) and a panic in a handler end the process
\* without the main thread's Null request, the latter with the pipeline
\* still Playing.
C8_ShutdownOnlyAfterLoop ==
    /\ exitBy.path = "main_return"
          => (graphState = "Null" /\ \E i \in 1..Len(nullReqs) : nullReqs[i] = "main")
    /\ exitBy.path = "parse"
          => (graphState = "Void" /\ nullReqs = <<>> /\ exitCode # 0)
    /\ exitBy.path \in {"panic_main", "abort"}
          => (exitCode # 0 /\ \A i \in 1..Len(nullReqs) : nullReqs[i] # "main")
    /\ exitBy.path = "abort" => graphState = "Playing"

\* a handler panicked and the process ended with no Null request at all
C8_Witness ==
    /\ exitBy.path = "abort" /\ exitBy.at \in {"route", "chain", "ghostpad", "current_caps"}
    /\ nullReqs = <<>> /\ graphState = "Playing"

\* the webrtcbin pad-added handler took track t through the unlinked branch
\* and returned
Promoted(t) ==
    /\ wpad[t].state = "added" /\ wpad[t].caps /\ ~wpad[t].linked
    /\ webrtcbin = "observed"
    /\ NoPanic("ghostpad", t) /\ NoPanic("add_pad", t)

GhostsOf(t, k) == {i \in 1..Len(ghosts) : ghosts[i].track = t /\ ghosts[i].level = k}

\* the name under which track t's pad is visible at level k
ExposedName(t, k) ==
    IF k = 0 THEN PadName(t) ELSE ghosts[CHOOSE i \in GhostsOf(t, k) : TRUE].name

\* C9: with webrtcbin one or two containers below the pipeline, a promoted
\* pad has exactly one ghost pad on every level 1..nest, added innermost
\* first, each targeting the pad exposed on the level directly below; none
\* beyond the container whose parent is the pipeline, where it is exposed.
C9_GhostChain ==
    nest <= 2 =>
        \A t \in Tracks : Promoted(t) =>
            /\ \A k \in 1..nest :
                /\ Cardinality(GhostsOf(t, k)) = 1
                /\ \A i \in GhostsOf(t, k) :
                    /\ ghosts[i].tlevel = k - 1
                    /\ ghosts[i].tname = ExposedName(t, k - 1)
                    /\ \A j \in GhostsOf(t, k - 1) : j < i
            /\ \A i \in 1..Len(ghosts) : ghosts[i].track = t => ghosts[i].level <= nest
            /\ probe[t] # "none"

\* a pad promoted through two container levels
C9_Witness ==
    /\ nest = 2
    /\ \E t \in Tracks :
        /\ Promoted(t)
        /\ Cardinality(GhostsOf(t, 1)) = 1 /\ Cardinality(GhostsOf(t, 2)) = 1
        /\ probe[t] = "armed"

\* C10: every ghost pad is named <media>_<pad name>; on one container no
\* two ghost pads share a name, no promotion fails on a name already taken,
\* and each promoted track has its one name.
C10_GhostNamesDistinct ==
    /\ \A i \in 1..Len(ghosts) :
          ghosts[i].name
            = wpad[ghosts[i].track].media \o "_" \o "src_" \o ToString(ghosts[i].track)
    /\ \A i, j \in 1..Len(ghosts) :
          (i # j /\ ghosts[i].level = ghosts[j].level) => ghosts[i].name # ghosts[j].name
    /\ exitBy.at # "add_pad"
    /\ \A t \in Tracks : Promoted(t) => Cardinality(GhostsOf(t, 1)) = 1

\* two tracks of the same kind, both promoted
C10_Witness ==
    \E t1, t2 \in Tracks :
        /\ t1 # t2 /\ wpad[t1].media = wpad[t2].media
        /\ Promoted(t1) /\ Promoted(t2)
        /\ GhostsOf(t1, 1) # {} /\ GhostsOf(t2, 1) # {}

\* the probe callback classified a track of a kind other than audio or video
UnknownRouted(t) ==
    /\ wpad[t].media \notin {"audio", "video"}
    /\ routeRuns'[t] # routeRuns[t]
    /\ exitBy'.at # "probe_caps"

\* what the default arm of the probe leaves alone
UnknownDropStep ==
    \A t \in Tracks :
        UnknownRouted(t) =>
            /\ elements' = elements /\ links' = links /\ slots' = slots
            /\ exitBy' = exitBy /\ exitCode' = exitCode
            /\ mainPc' = mainPc /\ bus' = bus /\ graphState' = graphState
            /\ "unhandled_media" \in logs'
            /\ probe'[t] = "removed"
            /\ \A u \in Tracks \ {t} : probe'[u] = probe[u]

\* C11: a track whose media kind is neither audio nor video is dropped
\* without a fatal error: routing it adds no element, links nothing to its
\* port, requests no mixer pad and leaves the bus loop and the routing of
\* the other tracks as they were.
C11_UnknownDropped ==
    /\ [](\A t \in Tracks :
            (wpad[t].state = "added" /\ wpad[t].media \notin {"audio", "video"}) =>
                /\ {e \in elements : e.track = t} = {}
                /\ ~Linked(Port(t))
                /\ SlotsOf(t) = {})
    /\ [][UnknownDropStep]_vars

\* an unknown track was dropped and another track was routed, the loop running
C11_Witness ==
    \E t, u \in Tracks :
        /\ wpad[t].media = "application" /\ probe[t] = "removed" /\ routeRuns[t] = 1
        /\ "unhandled_media" \in logs
        /\ u # t /\ wpad[u].media = "audio" /\ Count("decodebin", u) = 1
        /\ Linked(Port(u))
        /\ Running /\ mainPc = "loop"

\* a callback found no caps on the pad it was to classify
NoCapsAbort == exitBy' # exitBy /\ exitBy'.at \in {"current_caps", "probe_caps"}

\* the callback that found no caps aborted and built nothing
NoCapsStep ==
    /\ NoCapsAbort =>
           /\ exitBy'.path = "abort" /\ exitCode' # 0
           /\ ghosts' = ghosts /\ elements' = elements
           /\ links' = links /\ slots' = slots
    /\ \A t \in Tracks :
           (/\ wpad[t].state = "none" /\ wpad'[t].state = "added"
            /\ webrtcbin = "observed" /\ ~wpad'[t].caps)
           => exitBy' = [path |-> "abort", at |-> "current_caps", track |-> t]

\* C12: a pad that has no caps when a callback classifies it (the webrtcbin
\* pad-added handler or the buffer probe) is fatal: the callback aborts the
\* process and makes no ghost pad, element, link or mixer pad for that pad.
C12_NoCapsFatal ==
    /\ [](\A t \in Tracks :
            (exitBy.at \in {"current_caps", "probe_caps"} /\ exitBy.track = t) =>
                /\ Exited /\ exitBy.path = "abort"
                /\ {e \in elements : e.track = t} = {} /\ SlotsOf(t) = {}
                /\ ~Linked(Port(t))
                /\ (exitBy.at = "current_caps" =>
                       \A i \in 1..Len(ghosts) : ghosts[i].track # t))
    /\ [][NoCapsStep]_vars

\* the webrtcbin handler met an unlinked pad without caps
C12_Witness ==
    \E t \in Tracks :
        /\ exitBy = [path |-> "abort", at |-> "current_caps", track |-> t]
        /\ wpad[t].state = "added" /\ ~wpad[t].caps /\ ~wpad[t].linked
        /\ "pad_added" \in capsQueried[t]
        /\ exitCode = AbortExit

\* C13: when the pipeline description names an element type that does not
\* exist, startup fails before Playing is ever requested: the missing
\* elements are reported, no handler (ctrlc, deep-element-added, pad-added)
\* has been registered, no state was requested and the exit code is not 0.
C13_MissingElementFailsStartup ==
    /\ (exitBy.path = "parse" /\ exitBy.at = "no_such_element") =>
           /\ "missing_elements" \in logs
           /\ exitCode # 0 /\ exitCode = ParseFailExit
           /\ observers = {}
           /\ graphState = "Void" /\ nullReqs = <<>>
           /\ mainPc = "exited"
           /\ webrtcbin = "absent" /\ posted = 0
    /\ "missing_elements" \in logs => exitBy.at = "no_such_element"

\* the parse failed on a missing element
C13_Witness ==
    /\ exitBy = [path |-> "parse", at |-> "no_such_element", track |-> 0]
    /\ logs = {"missing_elements"}
    /\ exitCode = -1

\* the loop takes the oldest message, and what it does next depends on
\* whether that message is Eos or Error
LoopConsumes ==
    consumed' # consumed =>
        /\ mainPc = "loop" /\ bus # <<>>
        /\ consumed' = consumed + 1
        /\ Head(bus) = consumed' /\ bus' = Tail(bus)
        /\ mainPc' = IF lastMsg'.type \in {"Eos", "Error"} THEN "set_null" ELSE "loop"

\* the main thread leaves the loop on Eos or Error only
LoopLeaves ==
    (mainPc = "loop" /\ mainPc' # "loop") =>
        /\ consumed' # consumed
        /\ lastMsg'.type \in {"Eos", "Error"}

\* C14: the bus loop takes messages in the order they were posted and the
\* main thread leaves it on Eos or Error only; any other message, a state
\* change of a nested element or of the pipeline to any state included,
\* keeps the loop running.
C14_LoopLeavesOnEosOrError ==
    /\ [](mainPc \in {"set_null", "sleep"} => lastMsg.type \in {"Eos", "Error"})
    /\ [](mainPc = "loop" => lastMsg.type \notin {"Eos", "Error"})
    /\ [][LoopConsumes]_vars
    /\ [][LoopLeaves]_vars

\* the loop has viewed two messages, the last one the pipeline reaching
\* Null, and is still running
C14_Witness ==
    /\ mainPc = "loop" /\ Running
    /\ posted = 2 /\ consumed = 2 /\ bus = <<>>
    /\ lastMsg = [type |-> "StateChanged", src |-> "pipeline", current |-> "Null"]

\* the probe callback makes a decodebin or a fakesink, links nothing but the
\* pad it sits on, and requests no mixer pad
RouteIsLazy ==
    \A t \in Tracks :
        routeRuns'[t] # routeRuns[t] =>
            /\ slots' = slots
            /\ \A e \in elements' \ elements : e.kind \in {"decodebin", "fakesink"}
            /\ \A l \in links' \ links : l[1] = Port(t)

\* chain elements and mixer pads appear in a step in which a decodebin
\* added a src pad
ChainOnlyOnLeg ==
    (slots' # slots \/ \E e \in elements' \ elements : e.kind \in ChainKinds)
    => \E t \in Tracks : legs'[t] = legs[t] + 1 /\ wpad[t].media = "audio"

\* C15: audioconvert, audioresample, capsfilter and the mixer pad are made
\* only inside the decodebin's pad-added handler; the probe makes and links
\* only the decodebin; an audio track whose decodebin never adds a src pad
\* has no chain and no mixer pad.
C15_ChainBuiltOnDecodePad ==
    /\ [](\A t \in Tracks :
            /\ legs[t] = 0 =>
                  /\ SlotsOf(t) = {}
                  /\ {e \in elements : e.track = t /\ e.kind \in ChainKinds} = {}
            /\ \A e \in elements :
                  (e.track = t /\ e.kind \in ChainKinds) => e.leg \in 1..legs[t]
            /\ (wpad[t].media = "audio" /\ probe[t] = "removed") =>
                  /\ Count("decodebin", t) = 1
                  /\ \E d \in elements :
                        d.kind = "decodebin" /\ <<Port(t), ElemId(d)>> \in links)
    /\ [][RouteIsLazy]_vars
    /\ [][ChainOnlyOnLeg]_vars

\* an audio track has its decodebin made and linked by the probe, buffers
\* keep flowing, and with no src pad added by the decodebin there is neither
\* chain nor mixer pad
C15_Witness ==
    \E t \in Tracks :
        /\ wpad[t].media = "audio" /\ probe[t] = "removed" /\ legs[t] = 0
        /\ bufs[t] = 2
        /\ Count("decodebin", t) = 1 /\ Linked(Port(t))
        /\ SlotsOf(t) = {} /\ slots = <<>>
        /\ Running

\* C16: the caps of a pad are queried for classification only once a first
\* buffer has been seen on that pad; no callback queries them in the
\* pad-added notification itself.
C16_CapsQueriedAfterFirstData ==
    \A t \in Tracks :
        /\ "pad_added" \notin capsQueried[t]
        /\ capsQueried[t] # {} => bufs[t] >= 1

\* webrtcbin adds a pad that is linked already: the pads of every container
\* stay as they are
LinkedPadStep ==
    \A t \in Tracks :
        (wpad[t].state = "none" /\ wpad'[t].state = "added" /\ wpad'[t].linked)
        => /\ ghosts' = ghosts
           /\ exitBy'.at \notin {"add_pad", "ghostpad"}

\* C17: a pad that is linked already when pad-added fires on webrtcbin is
\* never promoted: the handler makes no ghost pad for it and leaves the pads
\* of every container unchanged, so the track is exposed once and routed
\* once.
C17_LinkedNeverPromoted ==
    /\ [](\A t \in Tracks :
            wpad[t].linked =>
                /\ \A i \in 1..Len(ghosts) : ghosts[i].track # t
                /\ routeRuns[t] <= 1
                /\ Cardinality({e \in elements : e.track = t /\ e.leg = 0}) <= 1)
    /\ [][LinkedPadStep]_vars

\* the handler saw a linked pad with caps; the track was routed once
C17_Witness ==
    \E t \in Tracks :
        /\ wpad[t].state = "added" /\ wpad[t].linked /\ wpad[t].caps
        /\ webrtcbin = "observed" /\ "pad_added" \in capsQueried[t]
        /\ ghosts = <<>>
        /\ bufs[t] = 2 /\ routeRuns[t] = 1 /\ probe[t] = "removed"
        /\ Running

\* elements the audio arm and the decodebin's pad-added handler make
AudioBuilt == {e \in elements : e.kind \in {"decodebin"} \cup ChainKinds}

\* position of a step among the steps that ran on an element, 0 if it did not
Pos(ops, step) ==
    IF \E i \in 1..Len(ops) : ops[i] = step
    THEN CHOOSE i \in 1..Len(ops) : ops[i] = step
    ELSE 0

\* C18 as stated: every element the audio route makes (decodebin,
\* audioconvert, audioresample, capsfilter) has its state synced with the
\* pipeline after it was linked, not before.
C18_SyncAfterLink ==
    \A e \in AudioBuilt :
        Pos(e.ops, "sync") # 0 =>
            /\ Pos(e.ops, "link") # 0
            /\ Pos(e.ops, "link") < Pos(e.ops, "sync")

\* C18 as the code has it: every element the audio route makes has its state
\* synced with the pipeline right after it was added to the pipeline and
\* before it is linked; no element is linked while not yet synced.
C18_SyncAfterAddBeforeLink ==
    \A e \in AudioBuilt :
        /\ Pos(e.ops, "sync") # 0 =>
              Pos(e.ops, "add") # 0 /\ Pos(e.ops, "sync") = Pos(e.ops, "add") + 1
        /\ Pos(e.ops, "link") # 0 =>
              Pos(e.ops, "sync") # 0 /\ Pos(e.ops, "sync") < Pos(e.ops, "link")

\* a decodebin and the chain behind it, all added, synced and linked
C18_Witness ==
    \E d, c \in elements :
        /\ d.kind = "decodebin" /\ d.ops = <<"add", "sync", "connect_pad_added", "link">>
        /\ c.kind = "capsfilter" /\ c.track = d.track /\ c.ops = <<"add", "sync", "link">>
        /\ SlotsOf(d.track) # {}

AllObservers == {"ctrlc", "deep_element_added", "input_pad_added"}

BothRequestedNull == Running /\ Len(nullReqs) = 2

\* a Null request on a pipeline that is in Null already changes nothing else
SecondNullStep ==
    (graphState = "Null" /\ nullReqs' # nullReqs) =>
        /\ graphState' = "Null"
        /\ exitBy' = exitBy /\ exitCode' = exitCode
        /\ Len(nullReqs') = 2 /\ nullReqs'[1] # nullReqs'[2]

====
